---- MODULE Spec2Model ----
(***************************************************************************)
(* CASM: canonical forms of configurations (HasCanonicalForm_impl.hh) and  *)
(* the deduplicating enumeration driver enumerate_configurations           *)
(* (enumerate_configurations_impl.hh), with the two databases it fills.    *)
(***************************************************************************)
EXTENDS Integers, Sequences, FiniteSets

\* ------------------------------------------------------------------ bounds
\* Largest number of (name, input) pairs handed to one run.
MaxBatches == 2
\* Largest number of configurations the enumerators of one run produce.
MaxConfigs == 3

\* --------------------------------------------------------- configurations
\* A supercell is identified by its number of sites; a configuration is an
\* occupation (0/1 per site) of one supercell. The project modelled has the
\* primitive cell and its two-site supercell.
Supercells == {1, 2}

Configurations ==
  UNION {{[scel |-> n, occ |-> f] : f \in [1..n -> 0..1]} : n \in Supercells}

\* supercell().permute_begin() .. permute_end(): the translations of the
\* periodic n-site cell, the identity first.
permute_range(n) ==
  [k \in 1..n |-> [i \in 1..n |-> ((i - 1 + (k - 1)) % n) + 1]]

\* copy_apply(permute_it, configuration): a new configuration, the argument
\* is left as it is.
copy_apply(p, config) ==
  [scel |-> config.scel, occ |-> [i \in 1..config.scel |-> config.occ[p[i]]]]

\* The strict total order on the occupations of one supercell
\* (ConfigCompare): lexicographic, site by site.
OccLess(a, b) ==
  \E i \in DOMAIN a :
    /\ a[i] < b[i]
    /\ \A j \in DOMAIN a : j < i => a[j] = b[j]

\* derived().less() as the binary comparison max_element uses:
\* copy_apply(A, config) < copy_apply(B, config).
less(config, A, B) == OccLess(copy_apply(A, config).occ, copy_apply(B, config).occ)

\* A scan that replaces the largest element on a tie as well: the last
\* largest element is kept.
RECURSIVE max_element_keeping_last(_, _, _, _)
max_element_keeping_last(config, range, largest, i) ==
  IF i > Len(range) THEN largest
  ELSE IF ~less(config, range[i], range[largest])
       THEN max_element_keeping_last(config, range, i, i + 1)
       ELSE max_element_keeping_last(config, range, largest, i + 1)

\* std::max_element(begin, end, less): the scan keeps the first largest
\* element; `largest` and `i` are positions in `range`.
RECURSIVE max_element_from(_, _, _, _)
max_element_from(config, range, largest, i) ==
  IF i > Len(range) THEN largest
  ELSE IF less(config, range[largest], range[i])
       THEN max_element_from(config, range, i, i + 1)
       ELSE max_element_from(config, range, largest, i + 1)

\* to_canonical without the scan: begin is returned.
to_canonical_begin(config, range) == 1

\* ConfigCanonicalForm::to_canonical(begin, end): the position of the
\* permutation max_element returns (the range is not empty here).
to_canonical(config, range) == max_element_from(config, range, 1, 2)

\* ConfigCanonicalForm::canonical_form(begin, end).
canonical_form_in(config, range) == copy_apply(range[to_canonical(config, range)], config)

\* ConfigCanonicalForm::canonical_form(): over the whole permutation group
\* of the configuration's own supercell (tabulated once per configuration).
CanonicalFormOf ==
  [config \in Configurations |-> canonical_form_in(config, permute_range(config.scel))]

canonical_form(config) == CanonicalFormOf[config]

\* make_primitive(configuration): the configuration in the smallest cell
\* whose periodic repetition gives it.
IsPeriod(config, d) ==
  /\ config.scel % d = 0
  /\ \A i \in 1..config.scel : config.occ[i] = config.occ[((i - 1) % d) + 1]

PrimitiveOf ==
  [config \in Configurations |->
     LET d == CHOOSE d \in 1..config.scel :
                IsPeriod(config, d) /\ \A e \in 1..(d - 1) : ~IsPeriod(config, e)
     IN [scel |-> d, occ |-> [i \in 1..d |-> config.occ[i]]]]

make_primitive(config) == PrimitiveOf[config]

is_primitive(config) == make_primitive(config) = config

\* The entries a database holds by convention: canonical configurations.
CanonicalConfigurations == {c \in Configurations : canonical_form(c) = c}

\* The value of the loop variable while no configuration is held.
NoConfiguration == [scel |-> 0, occ |-> <<>>]

\* ---------------------------------------------------------------- stores
\* DB::Database<T>::insert(value): a keyed, deduplicating container; the
\* second component tells whether the value was new.
db_insert(db, value) == <<db \cup {value}, value \notin db>>

\* DB::Database<T>::size().
db_size(db) == Cardinality(db)

\* options.filter: absent, or a predicate on configurations.
Filters == {"none", "first_site_occupied"}

filter_accepts(f, config) ==
  CASE f = "first_site_occupied" -> config.occ[1] = 1
    [] OTHER -> TRUE

\* CASM::dry_run_msg(options.dry_run): the prefix of every progress line.
dry_run_msg(dry_run) == IF dry_run THEN "(dry run) " ELSE ""

\* ------------------------------------------------------------------ state
\* run:  one call of enumerate_configurations: its position (pc), its
\*       arguments, its locals, the two databases in memory and on disk,
\*       and what it has logged. For the pair in hand it also keeps what
\*       the collaborators did: how many configurations the enumerator
\*       yielded, how many of them the filter refuses, and how many
\*       insertions into configuration_db returned "inserted".
\* twin: a second call fed the same inputs (pairs, enumerator output,
\*       commit outcomes) from identically seeded databases, with one option
\*       flipped; absent (pc = "absent") when a single call is studied.
\* seed: the databases' content when the call starts.
\* call: one call of a member of the canonical-form interface: the object
\*       it is called on, its arguments and what it returned; NoCall while
\*       enumerate_configurations is studied.
VARIABLES run, twin, seed, call

vars == <<run, twin, seed, call>>

NoTwin == [pc |-> "absent"]

NoCall == [op |-> "absent"]

Seeds ==
  {[configuration_db |-> S, supercell_db |-> C] :
     <<S, C>> \in
       {<<{}, {}>>} \cup {<<{c}, {c.scel}>> : c \in CanonicalConfigurations}}

InitialRun(options, guaranteed, n_pairs, s) ==
  [pc |-> "start",
   options |-> options,
   guaranteed |-> guaranteed,
   n_pairs |-> n_pairs,
   it |-> 1,
   produced |-> 0,
   configuration |-> NoConfiguration,
   count |-> 0,
   count_filtered |-> 0,
   num_before |-> 0,
   Ninit |-> 0,
   configuration_db |-> s.configuration_db,
   supercell_db |-> s.supercell_db,
   durable |-> s,
   commits |-> <<>>,
   log |-> <<>>,
   error |-> "none",
   canon_calls |-> 0,
   accepted |-> {},
   yielded |-> 0,
   rejected |-> 0,
   new_inserts |-> 0,
   has_primclex |-> FALSE]

Options ==
  [dry_run : BOOLEAN, primitive_only : BOOLEAN, filter : Filters]

InitRun ==
  /\ call = NoCall
  /\ seed \in Seeds
  /\ \E options \in Options, guaranteed \in BOOLEAN, n_pairs \in 0..MaxBatches :
       run = InitialRun(options, guaranteed, n_pairs, seed)

Init == InitRun /\ twin = NoTwin

\* ------------------------------------------------- enumerate_configurations
\* A progress line: the dry-run prefix and what the line reports.
Line(r, body) == <<dry_run_msg(r.options.dry_run), body>>

\* Entry of the call: Ninit is read and logged.
Begin(r) ==
  LET Ninit == db_size(r.configuration_db)
  IN [r EXCEPT !.pc = "outer",
               !.Ninit = Ninit,
               !.log = Append(@, Line(r, <<"init", Ninit>>))]

\* Head of one pass of the loop over the (name, input) pairs: the counters
\* are reset, the pair is announced and make_enumerator_f builds the
\* enumerator. An input the factory cannot use makes it throw; nothing in
\* the loop catches.
BeginBatch(r, well_formed) ==
  IF well_formed
  THEN [r EXCEPT !.pc = "inner",
                 !.count = 0,
                 !.count_filtered = 0,
                 !.num_before = db_size(r.configuration_db),
                 !.yielded = 0,
                 !.rejected = 0,
                 !.new_inserts = 0,
                 !.log = Append(@, Line(r, <<"enumerate", r.it>>))]
  ELSE [r EXCEPT !.pc = "aborted",
                 !.count = 0,
                 !.count_filtered = 0,
                 !.num_before = db_size(r.configuration_db),
                 !.yielded = 0,
                 !.rejected = 0,
                 !.new_inserts = 0,
                 !.log = Append(@, Line(r, <<"enumerate", r.it>>)),
                 !.error = "InvalidInput"]

\* The enumerator yields its next configuration; if its supercell has no
\* PrimClex it is given options.primclex_ptr, so it has one from here on.
NextConfiguration(r, config) ==
  [r EXCEPT !.pc = "filter",
            !.produced = @ + 1,
            !.configuration = config,
            !.has_primclex = TRUE,
            !.yielded = @ + 1,
            !.rejected = IF filter_accepts(r.options.filter, config) THEN @ ELSE @ + 1]

\* The end of the enumerator's output taken for a failure of the call.
EndBatch_reports_exhaustion(r) ==
  [r EXCEPT !.pc = "aborted", !.error = "Exhausted"]

\* The end of a pair with the iterator moved on twice: the next pair is
\* passed over.
EndBatch_skips_a_pair(r) ==
  LET num_after == db_size(r.configuration_db)
  IN [r EXCEPT !.pc = "outer",
               !.it = @ + 2,
               !.configuration = NoConfiguration,
               !.log = Append(@, Line(r, <<"batch", r.it, r.count,
                                           num_after - r.num_before,
                                           r.count_filtered>>))]

\* The enumerator is exhausted: the pair's counters are logged and the loop
\* moves to the next pair.
EndBatch(r) ==
  LET num_after == db_size(r.configuration_db)
  IN [r EXCEPT !.pc = "outer",
               !.it = @ + 1,
               !.configuration = NoConfiguration,
               !.has_primclex = FALSE,
               !.log = Append(@, Line(r, <<"batch", r.it, r.count,
                                           num_after - r.num_before,
                                           r.count_filtered>>))]

\* make_canonical_and_insert(configuration, supercell_db, configuration_db,
\* primitive_only): the primitive canonical configuration is inserted, its
\* supercell registered first; unless primitive_only, the canonical form of
\* the configuration in its own supercell is inserted too when the
\* configuration is not primitive. canon_calls counts the canonical forms
\* computed.
make_canonical_and_insert(r, config, primitive_only) ==
  LET prim == make_primitive(config)
      both == ~primitive_only /\ prim.scel # config.scel
      scels == {prim.scel} \cup (IF both THEN {config.scel} ELSE {})
        forms == {canonical_form(prim)} \cup (IF both THEN {canonical_form(config)} ELSE {})
  IN [r EXCEPT !.supercell_db = @ \cup scels,
               !.configuration_db = @ \cup forms,
               !.canon_calls = @ + Cardinality(forms),
               !.new_inserts = @ + Cardinality(forms \ r.configuration_db)]

\* The filter applied after the canonical form was made and stored.
Filter_after_canonicalization(r) ==
  IF r.options.filter # "none" /\ ~filter_accepts(r.options.filter, r.configuration)
  THEN [make_canonical_and_insert(r, r.configuration, r.options.primitive_only)
          EXCEPT !.pc = "inner", !.count_filtered = @ + 1]
  ELSE [r EXCEPT !.pc = "insert", !.count = @ + 1]

\* The filter with ++count moved above the test: a refused configuration
\* is counted as accepted too.
Filter_counts_every_candidate(r) ==
  IF r.options.filter # "none" /\ ~filter_accepts(r.options.filter, r.configuration)
  THEN [r EXCEPT !.pc = "inner", !.count = @ + 1, !.count_filtered = @ + 1]
  ELSE [r EXCEPT !.pc = "insert", !.count = @ + 1]

\* if(options.filter && !options.filter(configuration)) { ++count_filtered;
\* continue; } ++count;
Filter(r) ==
  IF r.options.filter # "none" /\ ~filter_accepts(r.options.filter, r.configuration)
  THEN [r EXCEPT !.pc = "inner", !.count_filtered = @ + 1]
  ELSE [r EXCEPT !.pc = "insert", !.count = @ + 1]

\* The configuration in hand has passed the filter and is handed on
\* (accepted keeps the configurations handed on so far).
Accepted(r) == [r EXCEPT !.pc = "inner", !.accepted = @ \cup {r.configuration}]

\* configuration_db.insert(configuration) and what it returned.
insert_configuration(r, config) ==
  LET result == db_insert(r.configuration_db, config)
  IN [r EXCEPT !.configuration_db = result[1],
               !.new_inserts = IF result[2] THEN @ + 1 ELSE @]

\* Insert that stores nothing in a dry run.
Insert_skipped_in_dry_run(r) ==
  IF r.options.dry_run
  THEN Accepted(r)
  ELSE IF r.guaranteed
       THEN insert_configuration(Accepted(r), r.configuration)
       ELSE make_canonical_and_insert(Accepted(r), r.configuration, r.options.primitive_only)

\* Insert that does not trust the enumerator's guarantee.
Insert_always_canonicalizes(r) ==
  make_canonical_and_insert(Accepted(r), r.configuration, r.options.primitive_only)

\* Insert that does not hand options.primitive_only on.
Insert_ignores_primitive_only(r) ==
  IF r.guaranteed
  THEN insert_configuration(Accepted(r), r.configuration)
  ELSE make_canonical_and_insert(Accepted(r), r.configuration, TRUE)

\* Insert with the dispatch lost: the configuration is stored as it came.
Insert_unchecked(r) ==
  insert_configuration(Accepted(r), r.configuration)

\* if(is_guaranteed_for_database_insert(enumerator))
\*   configuration_db.insert(configuration);
\* else make_canonical_and_insert(configuration, supercell_db,
\*                                configuration_db, options.primitive_only);
Insert(r) ==
  IF r.guaranteed
  THEN insert_configuration(Accepted(r), r.configuration)
  ELSE make_canonical_and_insert(Accepted(r), r.configuration, r.options.primitive_only)

\* Finalize with the dry_run test lost.
Finalize_always_commits(r) ==
  LET Nfinal == db_size(r.configuration_db)
  IN [r EXCEPT !.pc = "commit_supercell_db",
               !.log = Append(@, Line(r, <<"total", Nfinal - r.Ninit, Nfinal>>))]

\* After the loop: the totals are logged; a dry run ends here, any other
\* goes on to write the databases.
Finalize(r) ==
  LET Nfinal == db_size(r.configuration_db)
  IN [r EXCEPT !.pc = IF r.options.dry_run THEN "done" ELSE "commit_supercell_db",
               !.log = Append(@, Line(r, <<"total", Nfinal - r.Ninit, Nfinal>>))]

\* DB::Database<T>::commit(): the content in memory becomes the content on
\* disk, or the write fails and commit throws.
db_commit(r, store) ==
  [r EXCEPT !.durable = [@ EXCEPT ![store] = r[store]],
            !.commits = Append(@, store)]

\* A failed commit of supercell_db caught and passed over.
CommitSupercellDb_swallows(r, written) ==
  IF written
  THEN [db_commit(r, "supercell_db") EXCEPT !.pc = "commit_configuration_db"]
  ELSE [r EXCEPT !.pc = "commit_configuration_db", !.error = "StorageError"]

\* The two commits in the other order.
CommitSupercellDb_swapped(r, written) ==
  IF written
  THEN [db_commit(r, "configuration_db") EXCEPT !.pc = "commit_configuration_db"]
  ELSE [r EXCEPT !.pc = "aborted", !.error = "StorageError"]

\* supercell_db.commit(); nothing catches what it throws.
CommitSupercellDb(r, written) ==
  IF written
  THEN [db_commit(r, "supercell_db") EXCEPT
          !.pc = "commit_configuration_db",
          !.log = Append(@, <<"", <<"written", "supercell_db">>>>)]
  ELSE [r EXCEPT !.pc = "aborted", !.error = "StorageError"]

\* configuration_db.commit(); log.end_section(); the call returns.
CommitConfigurationDb(r, written) ==
  IF written
  THEN [db_commit(r, "configuration_db") EXCEPT
          !.pc = "done",
          !.log = Append(@, <<"", <<"written", "configuration_db">>>>)]
  ELSE [r EXCEPT !.pc = "aborted", !.error = "StorageError"]

\* ---------------------------------------------------------------- actions
\* Every call that stands at a position takes the step, run and twin on the
\* same input; a call standing elsewhere (or absent) is left as it is.
Standing(pc) == run.pc = pc \/ twin.pc = pc

Holds(pc, r, P) == r.pc = pc => P

Advance(pc, r, next) == IF r.pc = pc THEN next ELSE r

DoBegin ==
  /\ Standing("start")
  /\ run' = Advance("start", run, Begin(run))
  /\ twin' = Advance("start", twin, Begin(twin))
  /\ UNCHANGED <<seed, call>>

DoBeginBatch ==
  /\ Standing("outer")
  /\ Holds("outer", run, run.it <= run.n_pairs)
  /\ Holds("outer", twin, twin.it <= twin.n_pairs)
  /\ \E well_formed \in BOOLEAN :
       /\ run' = Advance("outer", run, BeginBatch(run, well_formed))
       /\ twin' = Advance("outer", twin, BeginBatch(twin, well_formed))
  /\ UNCHANGED <<seed, call>>

DoNextConfiguration ==
  /\ Standing("inner")
  /\ Holds("inner", run, run.produced < MaxConfigs)
  /\ Holds("inner", twin, twin.produced < MaxConfigs)
  /\ \E config \in Configurations :
       /\ run' = Advance("inner", run, NextConfiguration(run, config))
       /\ twin' = Advance("inner", twin, NextConfiguration(twin, config))
  /\ UNCHANGED <<seed, call>>

DoEndBatch ==
  /\ Standing("inner")
  /\ run' = Advance("inner", run, EndBatch(run))
  /\ twin' = Advance("inner", twin, EndBatch(twin))
  /\ UNCHANGED <<seed, call>>

DoFilter ==
  /\ Standing("filter")
  /\ run' = Advance("filter", run, Filter(run))
  /\ twin' = Advance("filter", twin, Filter(twin))
  /\ UNCHANGED <<seed, call>>

DoInsert ==
  /\ Standing("insert")
  /\ run' = Advance("insert", run, Insert(run))
  /\ twin' = Advance("insert", twin, Insert(twin))
  /\ UNCHANGED <<seed, call>>

DoFinalize ==
  /\ Standing("outer")
  /\ Holds("outer", run, run.it > run.n_pairs)
  /\ Holds("outer", twin, twin.it > twin.n_pairs)
  /\ run' = Advance("outer", run, Finalize(run))
  /\ twin' = Advance("outer", twin, Finalize(twin))
  /\ UNCHANGED <<seed, call>>

DoCommitSupercellDb ==
  /\ Standing("commit_supercell_db")
  /\ \E written \in BOOLEAN :
       /\ run' = Advance("commit_supercell_db", run, CommitSupercellDb(run, written))
       /\ twin' = Advance("commit_supercell_db", twin, CommitSupercellDb(twin, written))
  /\ UNCHANGED <<seed, call>>

DoCommitConfigurationDb ==
  /\ Standing("commit_configuration_db")
  /\ \E written \in BOOLEAN :
       /\ run' = Advance("commit_configuration_db", run, CommitConfigurationDb(run, written))
       /\ twin' = Advance("commit_configuration_db", twin, CommitConfigurationDb(twin, written))
  /\ UNCHANGED <<seed, call>>

Next ==
  \/ DoBegin
  \/ DoBeginBatch
  \/ DoNextConfiguration
  \/ DoEndBatch
  \/ DoFilter
  \/ DoInsert
  \/ DoFinalize
  \/ DoCommitSupercellDb
  \/ DoCommitConfigurationDb

Spec == Init /\ [][Next]_vars

\* The call is a sequential program: while it has a next step, it takes
\* one.
SpecFair == Init /\ [][Next]_vars /\ WF_vars(Next)

\* Two calls on the same inputs from identically seeded databases, the twin
\* with dry_run flipped.
InitDryRunPair ==
  /\ InitRun
  /\ twin = [run EXCEPT !.options.dry_run = ~@]

SpecDryRunPair == InitDryRunPair /\ [][Next]_vars

\* The same, the twin with primitive_only flipped.
InitPrimitiveOnlyPair ==
  /\ InitRun
  /\ twin = [run EXCEPT !.options.primitive_only = ~@]

SpecPrimitiveOnlyPair == InitPrimitiveOnlyPair /\ [][Next]_vars

\* Two calls with the same arguments on the same inputs from identically
\* seeded databases.
InitSameInputsPair ==
  /\ InitRun
  /\ twin = run

SpecSameInputsPair == InitSameInputsPair /\ [][Next]_vars

\* ------------------------------------------------ canonical-form interface
\* Largest number of sites of a cell whose configurations the interface is
\* called on.
MaxSites == 4

Cells == 1..MaxSites

ConfigurationsOf(n) == {[scel |-> n, occ |-> f] : f \in [1..n -> 0..1]}

\* The permutations of the n-site cell, as a set.
PermutationsOf(n) == {permute_range(n)[k] : k \in 1..n}

\* [begin, end): a sequence of permutations of one cell, none of them
\* twice, in any order; possibly empty, possibly without the identity.
RECURSIVE Arrangements(_)
Arrangements(S) ==
  {<<>>} \cup UNION {{<<x>> \o rest : rest \in Arrangements(S \ {x})} : x \in S}

Ranges(n) == Arrangements(PermutationsOf(n))

Members(range) == {range[k] : k \in 1..Len(range)}

\* PermuteIterator::inverse() and the product of two permutations as
\* copy_apply composes them: apply B, then A.
inverse(A) == [i \in DOMAIN A |-> CHOOSE j \in DOMAIN A : A[j] = i]

product(A, B) == [i \in DOMAIN A |-> B[A[i]]]

\* A range that lists a group: not empty and closed under the product.
IsGroup(range) ==
  /\ range # <<>>
  /\ \A A, B \in Members(range) : product(A, B) \in Members(range)

\* derived().less() as the unary predicate none_of uses:
\* config < copy_apply(A, config).
less_than_image(config, A) == OccLess(config.occ, copy_apply(A, config).occ)

\* derived().equal_to() as the unary predicate copy_if uses:
\* config == copy_apply(A, config).
equal_to(config, A) == copy_apply(A, config) = config

\* What a call returns: a truth value, an object, an action, a sequence of
\* actions, the end of the range, or nothing because the call faulted.
Bool(b) == [tag |-> "bool", bool |-> b]

Object(config) == [tag |-> "object", object |-> config]

Action(A) == [tag |-> "action", action |-> A]

Subgroup(range) == [tag |-> "subgroup", subgroup |-> range]

End == [tag |-> "end"]

Fault == [tag |-> "fault"]

\* Undefined behaviour that is to produce an object of the n-site cell, or
\* an action of it: any such value, or a fault.
UndefinedObject(n) == {Fault} \cup {Object(config) : config \in ConfigurationsOf(n)}

UndefinedAction(n) == {Fault} \cup {Action(A) : A \in PermutationsOf(n)}

\* -- template<typename Base> class ConfigCanonicalForm, explicit range
\* is_canonical with the comparison turned round: no image is smaller.
ConfigCanonicalForm_is_canonical_reversed(config, range) ==
  \A k \in 1..Len(range) : ~OccLess(copy_apply(range[k], config).occ, config.occ)

\* is_canonical that requires every image to be strictly smaller.
ConfigCanonicalForm_is_canonical_strict(config, range) ==
  \A k \in 1..Len(range) : OccLess(copy_apply(range[k], config).occ, config.occ)

\* is_canonical(begin, end): std::none_of(begin, end, derived().less()).
ConfigCanonicalForm_is_canonical(config, range) ==
  \A k \in 1..Len(range) : ~less_than_image(config, range[k])

\* to_canonical that returns the last action of the range.
ConfigCanonicalForm_to_canonical_last(config, range) ==
  IF range = <<>> THEN End ELSE Action(range[Len(range)])

\* to_canonical(begin, end): what std::max_element returns, which is end
\* for an empty range.
ConfigCanonicalForm_to_canonical(config, range) ==
  LET k == to_canonical(config, range)
  IN IF k > Len(range) THEN End ELSE Action(range[k])

\* copy_apply(it, config) and it.inverse() for what to_canonical returned:
\* end is past the last permutation, and using it as one is undefined.
copy_apply_it(it, config) ==
  IF it.tag = "action"
  THEN {Object(copy_apply(it.action, config))}
  ELSE UndefinedObject(config.scel)

inverse_it(it, n) ==
  IF it.tag = "action" THEN {Action(inverse(it.action))} ELSE UndefinedAction(n)

\* canonical_form that applies from_canonical(begin, end) where
\* to_canonical(begin, end) belongs.
ConfigCanonicalForm_canonical_form_inverted(config, range) ==
  UNION {copy_apply_it(it, config) :
           it \in inverse_it(ConfigCanonicalForm_to_canonical(config, range), config.scel)}

\* canonical_form(begin, end): copy_apply(to_canonical(begin, end), derived()).
ConfigCanonicalForm_canonical_form(config, range) ==
  copy_apply_it(ConfigCanonicalForm_to_canonical(config, range), config)

\* from_canonical(begin, end): to_canonical(begin, end).inverse().
ConfigCanonicalForm_from_canonical(config, range) ==
  inverse_it(ConfigCanonicalForm_to_canonical(config, range), config.scel)

\* invariant_subgroup with std::front_inserter: the actions kept come out in
\* the opposite order.
ConfigCanonicalForm_invariant_subgroup_front(config, range) ==
  LET keep(A) == equal_to(config, A)
      kept == SelectSeq(range, keep)
  IN [k \in 1..Len(kept) |-> kept[Len(kept) + 1 - k]]

\* invariant_subgroup that keeps every action whose image is not greater.
ConfigCanonicalForm_invariant_subgroup_not_less(config, range) ==
  LET keep(A) == ~less_than_image(config, A)
  IN SelectSeq(range, keep)

\* invariant_subgroup(begin, end): std::copy_if(begin, end,
\* std::back_inserter(sub_grp), derived().equal_to()).
ConfigCanonicalForm_invariant_subgroup(config, range) ==
  LET keep(A) == equal_to(config, A)
  IN SelectSeq(range, keep)

\* is_equivalent(B): this->canonical_form() == B.canonical_form(), each over
\* the permutations of the configuration's own supercell.
ConfigCanonicalForm_is_equivalent(config, B) ==
  canonical_form_in(config, permute_range(config.scel))
    = canonical_form_in(B, permute_range(B.scel))

\* -- the function objects the class CanonicalForm hands its work to
\* ScelIsCanonical<T> f(scel); f(obj): obj is compared with its images under
\* every permutation of scel.
ScelIsCanonical(config) ==
  ConfigCanonicalForm_is_canonical(config, permute_range(config.scel))

\* ScelCanonicalGenerator<T> f(scel); f(obj, begin, end): the canonical form
\* over [begin, end), obj itself when the range is empty; f.to_canonical():
\* the permutation that gave it.
ScelCanonicalGenerator(config, range) ==
  IF range = <<>> THEN config ELSE canonical_form_in(config, range)

ScelCanonicalGenerator_to_canonical(config, range) ==
  range[to_canonical(config, range)]

\* IsCanonical<Orbit> f(g, sym_compare) and CanonicalGenerator<Orbit>
\* f(g, sym_compare): the same over the operations of the group g.
IsCanonical(config, g) == ConfigCanonicalForm_is_canonical(config, g)

CanonicalGenerator(config, g) == canonical_form_in(config, g)

CanonicalGenerator_to_canonical(config, g) == g[to_canonical(config, g)]

\* make_invariant_subgroup(obj, ...): the operations that leave obj equal.
make_invariant_subgroup(config, range) ==
  LET keep(A) == equal_to(config, A)
  IN SelectSeq(range, keep)

\* -- template<typename _Base> class CanonicalForm, (scel, begin, end)
\* f is built from scel and called on derived() alone.
CanonicalForm_is_canonical(config, range) == ScelIsCanonical(config)

CanonicalForm_canonical_form(config, range) ==
  ScelCanonicalGenerator(config, permute_range(config.scel))

\* f.sym_compare.equal(f(derived(), begin, end), f(B, begin, end)).
CanonicalForm_is_equivalent(config, B, range) ==
  ScelCanonicalGenerator(config, range) = ScelCanonicalGenerator(B, range)

CanonicalForm_to_canonical(config, range) ==
  ScelCanonicalGenerator_to_canonical(config, permute_range(config.scel))

\* to_canonical(scel, begin, end).inverse(); with no return statement:
\* the value the caller receives is undefined.
CanonicalForm_from_canonical(config, range) == UndefinedAction(config.scel)

CanonicalForm_invariant_subgroup(config, range) ==
  make_invariant_subgroup(config, range)

\* -- template<typename _Base> class CanonicalForm, (g, sym_compare)
CanonicalForm_is_canonical_g(config, g) == IsCanonical(config, g)

CanonicalForm_canonical_form_g(config, g) == CanonicalGenerator(config, g)

CanonicalForm_is_equivalent_g(config, other, g) ==
  CanonicalGenerator(config, g) = CanonicalGenerator(other, g)

CanonicalForm_to_canonical_g(config, g) == CanonicalGenerator_to_canonical(config, g)

CanonicalForm_from_canonical_g(config, g) ==
  inverse(CanonicalForm_to_canonical_g(config, g))

CanonicalForm_invariant_subgroup_g(config, g) == make_invariant_subgroup(config, g)

\* -- one call of one member
\* A call records the member called (op, "ready" before the call), the
\* interface (mode), the object it is called on, its arguments (range,
\* other), what it returned (result) and the two databases of the project
\* the object belongs to.
\* The interface called: ConfigCanonicalForm with an explicit range
\* ("config") or with none, the range then being the supercell's own
\* permute_begin() .. permute_end() ("config_default"); CanonicalForm with
\* (scel, begin, end) ("local") or with a group and a comparison ("global").
Modes == {"config", "config_default", "local", "global"}

RangesFor(mode, n) ==
  CASE mode = "config_default" -> {permute_range(n)}
    [] mode = "global" -> {g \in Ranges(n) : IsGroup(g)}
    [] OTHER -> Ranges(n)

NoResult == [tag |-> "none"]

Calls ==
  UNION {UNION {{[op |-> "ready", mode |-> mode, object |-> config,
                  range |-> range, other |-> config, result |-> NoResult,
                  supercell_db |-> {config.scel}, configuration_db |-> {}] :
                   config \in ConfigurationsOf(n), range \in RangesFor(mode, n)} :
                n \in Cells} :
         mode \in Modes}

is_canonical_returns(c) ==
  {Bool(CASE c.mode = "local" -> CanonicalForm_is_canonical(c.object, c.range)
          [] c.mode = "global" -> CanonicalForm_is_canonical_g(c.object, c.range)
          [] OTHER -> ConfigCanonicalForm_is_canonical(c.object, c.range))}

canonical_form_returns(c) ==
  CASE c.mode = "local" -> {Object(CanonicalForm_canonical_form(c.object, c.range))}
    [] c.mode = "global" -> {Object(CanonicalForm_canonical_form_g(c.object, c.range))}
    [] OTHER -> ConfigCanonicalForm_canonical_form(c.object, c.range)

to_canonical_returns(c) ==
  CASE c.mode = "local" -> {Action(CanonicalForm_to_canonical(c.object, c.range))}
    [] c.mode = "global" -> {Action(CanonicalForm_to_canonical_g(c.object, c.range))}
    [] OTHER -> {ConfigCanonicalForm_to_canonical(c.object, c.range)}

from_canonical_returns(c) ==
  CASE c.mode = "local" -> CanonicalForm_from_canonical(c.object, c.range)
    [] c.mode = "global" -> {Action(CanonicalForm_from_canonical_g(c.object, c.range))}
    [] OTHER -> ConfigCanonicalForm_from_canonical(c.object, c.range)

invariant_subgroup_returns(c) ==
  {Subgroup(CASE c.mode = "local" -> CanonicalForm_invariant_subgroup(c.object, c.range)
              [] c.mode = "global" -> CanonicalForm_invariant_subgroup_g(c.object, c.range)
              [] OTHER -> ConfigCanonicalForm_invariant_subgroup(c.object, c.range))}

\* is_equivalent takes a range in the local and the global interface only.
is_equivalent_returns(c, B) ==
  {Bool(CASE c.mode = "local" -> CanonicalForm_is_equivalent(c.object, B, c.range)
          [] c.mode = "global" -> CanonicalForm_is_equivalent_g(c.object, B, c.range)
          [] OTHER -> ConfigCanonicalForm_is_equivalent(c.object, B))}

Returned(c, op, result) == [c EXCEPT !.op = op, !.result = result]

\* No member has been called yet, and the interface is one of `modes`.
Ready(modes) == call.op = "ready" /\ call.mode \in modes

DoIsCanonical ==
  /\ Ready(Modes)
  /\ \E result \in is_canonical_returns(call) :
       call' = Returned(call, "is_canonical", result)
  /\ UNCHANGED <<run, twin, seed>>

DoCanonicalForm ==
  /\ Ready(Modes)
  /\ \E result \in canonical_form_returns(call) :
       call' = Returned(call, "canonical_form", result)
  /\ UNCHANGED <<run, twin, seed>>

DoToCanonical ==
  /\ Ready(Modes)
  /\ \E result \in to_canonical_returns(call) :
       call' = Returned(call, "to_canonical", result)
  /\ UNCHANGED <<run, twin, seed>>

DoFromCanonical ==
  /\ Ready(Modes)
  /\ \E result \in from_canonical_returns(call) :
       call' = Returned(call, "from_canonical", result)
  /\ UNCHANGED <<run, twin, seed>>

DoInvariantSubgroup ==
  /\ Ready(Modes)
  /\ \E result \in invariant_subgroup_returns(call) :
       call' = Returned(call, "invariant_subgroup", result)
  /\ UNCHANGED <<run, twin, seed>>

DoIsEquivalent ==
  /\ Ready(Modes)
  /\ call.mode # "config"
  /\ \E B \in ConfigurationsOf(call.object.scel) :
       \E result \in is_equivalent_returns(call, B) :
         call' = [Returned(call, "is_equivalent", result) EXCEPT !.other = B]
  /\ UNCHANGED <<run, twin, seed>>

\* -- template<typename Base> class SupercellCanonicalForm
\* A supercell: its number of sites and m_canonical, the cached pointer to
\* its canonical form in the supercell database (NullPointer until set).
NullPointer == [tag |-> "null"]

Pointer(n) == [tag |-> "pointer", scel |-> n]

\* The calls on a supercell: one that was never inserted, one that is in
\* the database with nothing cached, one with its canonical form cached.
SupercellCalls ==
  UNION {{[op |-> "ready", mode |-> "supercell",
           object |-> [scel |-> n, m_canonical |-> m],
           range |-> permute_range(n), other |-> [scel |-> n, m_canonical |-> m],
           result |-> NoResult,
           supercell_db |-> db, configuration_db |-> {}] :
            <<db, m>> \in {<<{}, NullPointer>>, <<{n}, NullPointer>>, <<{n}, Pointer(n)>>}} :
         n \in Cells}

\* Lattice::is_canonical / to_canonical / from_canonical(point_group, tol):
\* the lattice of the n-site cell of the chain is its own canonical form,
\* reached by the identity.
lattice_is_canonical(n) == TRUE

lattice_to_canonical(n) == [i \in 1..n |-> i]

lattice_from_canonical(n) == inverse(lattice_to_canonical(n))

\* Supercell::insert(): the supercell is inserted into the supercell
\* database of its project; the first component is the stored supercell.
supercell_insert(db, n) == <<Pointer(n), db_insert(db, n)[1]>>

\* canonical_form(): if(!m_canonical) m_canonical = &*derived().insert().first;
\* return *m_canonical;
SupercellCanonicalForm_canonical_form(c) ==
  IF c.object.m_canonical = NullPointer
  THEN LET inserted == supercell_insert(c.supercell_db, c.object.scel)
       IN [c EXCEPT !.op = "Supercell::canonical_form",
                    !.object.m_canonical = inserted[1],
                    !.supercell_db = inserted[2],
                    !.result = inserted[1]]
  ELSE [c EXCEPT !.op = "Supercell::canonical_form",
                 !.result = c.object.m_canonical]

DoSupercellIsCanonical ==
  /\ Ready({"supercell"})
  /\ call' = Returned(call, "Supercell::is_canonical",
                      Bool(lattice_is_canonical(call.object.scel)))
  /\ UNCHANGED <<run, twin, seed>>

DoSupercellToCanonical ==
  /\ Ready({"supercell"})
  /\ call' = Returned(call, "Supercell::to_canonical",
                      Action(lattice_to_canonical(call.object.scel)))
  /\ UNCHANGED <<run, twin, seed>>

DoSupercellFromCanonical ==
  /\ Ready({"supercell"})
  /\ call' = Returned(call, "Supercell::from_canonical",
                      Action(lattice_from_canonical(call.object.scel)))
  /\ UNCHANGED <<run, twin, seed>>

DoSupercellCanonicalForm ==
  /\ Ready({"supercell"})
  /\ call' = SupercellCanonicalForm_canonical_form(call)
  /\ UNCHANGED <<run, twin, seed>>

InitCanonicalForm ==
  /\ run = NoTwin
  /\ twin = NoTwin
  /\ seed = [configuration_db |-> {}, supercell_db |-> {}]
  /\ call \in Calls \cup SupercellCalls

NextCanonicalForm ==
  \/ DoIsCanonical
  \/ DoCanonicalForm
  \/ DoToCanonical
  \/ DoFromCanonical
  \/ DoInvariantSubgroup
  \/ DoIsEquivalent
  \/ DoSupercellIsCanonical
  \/ DoSupercellToCanonical
  \/ DoSupercellFromCanonical
  \/ DoSupercellCanonicalForm

SpecCanonicalForm == InitCanonicalForm /\ [][NextCanonicalForm]_vars

\* ------------------------------------------------------------------ claims
Growth(r) == db_size(r.configuration_db) - db_size(seed.configuration_db)

\* The orbits met so far, each named by its canonical form.
Orbits(r) == {canonical_form(c) : c \in r.accepted}

\* C1 (as claimed): in every reachable state every entry of
\* configuration_db belongs to a supercell registered in supercell_db, on
\* the direct-insert path as on the canonicalizing one.
C1_InsertBeforeReference ==
  \A c \in run.configuration_db : c.scel \in run.supercell_db

\* C2 (as claimed): on the canonicalizing path the object store grows by
\* exactly the number of distinct orbits met that were not already stored.
C2_GrowthIsOrbitsMet ==
  ~run.guaranteed =>
    Growth(run) = Cardinality(Orbits(run) \ seed.configuration_db)

\* What the canonicalizing path stores for the orbits met: the canonical
\* form of each one's primitive configuration and, unless primitive_only,
\* the canonical form itself.
StoredForms(r) ==
  {canonical_form(make_primitive(o)) : o \in Orbits(r)}
    \cup (IF r.options.primitive_only THEN {} ELSE Orbits(r))

\* C2 (amended): on the canonicalizing path two members of one orbit give
\* one entry, and the object store grows by exactly the number of distinct
\* canonical forms stored for the orbits met (the primitive canonical form
\* of each and, unless primitive_only, the orbit's own canonical form) that
\* were not already stored; never by the number of candidates.
C2_GrowthIsStoredForms ==
  ~run.guaranteed =>
    /\ run.configuration_db = seed.configuration_db \cup StoredForms(run)
    /\ Growth(run) = Cardinality(StoredForms(run) \ seed.configuration_db)
    /\ \A a \in run.accepted :
         Cardinality({e \in run.configuration_db :
                        canonical_form(e) = canonical_form(a)}) <= 1

\* Two different members of one orbit went down the canonicalizing path
\* and left one entry.
C2_Witness ==
  /\ ~run.guaranteed
  /\ run.pc = "done"
  /\ Growth(run) = 1
  /\ \E a, b \in run.accepted : a # b /\ canonical_form(a) = canonical_form(b)

\* C3: without dry_run, supercell_db is committed once, then
\* configuration_db once, both only after every pair has been processed;
\* the second commit starts only after the first has completed, and no
\* insertion follows a commit.
C3_CommitOrdering ==
  /\ [](/\ run.commits \in {<<>>, <<"supercell_db">>,
                             <<"supercell_db", "configuration_db">>}
        /\ run.commits # <<>> => ~run.options.dry_run /\ run.it > run.n_pairs
        /\ run.pc = "commit_supercell_db" => run.commits = <<>>
        /\ run.pc = "commit_configuration_db" => run.commits = <<"supercell_db">>
        /\ (run.pc = "done" /\ ~run.options.dry_run) =>
             run.commits = <<"supercell_db", "configuration_db">>)
  /\ [][run.commits # <<>> =>
          /\ run'.configuration_db = run.configuration_db
          /\ run'.supercell_db = run.supercell_db]_vars

C3_Witness ==
  /\ run.pc = "done"
  /\ run.commits = <<"supercell_db", "configuration_db">>
  /\ run.n_pairs = 2
  /\ Growth(run) > 0

\* C4: in a dry run neither database is ever committed, and what is on
\* disk at the end is what was there at the start.
C4_DryRunLeavesDiskUntouched ==
  run.options.dry_run => run.commits = <<>> /\ run.durable = seed

C4_Witness ==
  /\ run.options.dry_run
  /\ run.pc = "done"
  /\ run.configuration_db # seed.configuration_db
  /\ run.supercell_db # seed.supercell_db

\* The counters a call reported: its progress lines without their prefix
\* (the lines about writing the databases carry no counter).
IsCounterLine(line) == line[2][1] \in {"init", "batch", "total"}

Reported(r) ==
  LET lines == SelectSeq(r.log, IsCounterLine)
  IN [i \in 1..Len(lines) |-> lines[i][2]]

InMemory(r) ==
  [configuration_db |-> r.configuration_db, supercell_db |-> r.supercell_db]

\* C5: two calls on the same pairs, enumerator output, filter and flags,
\* from identically seeded databases and differing only in dry_run, report
\* the same counters (per pair: accepted, new, excluded; for the call: the
\* counts before and after); only the call without dry_run leaves anything
\* on disk.
C5_DryRunEquivalence ==
  /\ Reported(run) = Reported(twin)
  /\ \A r \in {run, twin} :
       /\ r.options.dry_run => r.durable = seed
       /\ (~r.options.dry_run /\ r.pc = "done") => r.durable = InMemory(r)

C5_Witness ==
  /\ run.pc = "done"
  /\ twin.pc = "done"
  /\ run.options.dry_run
  /\ \E i \in 1..Len(Reported(run)) :
       LET line == Reported(run)[i]
       IN line[1] = "batch" /\ line[3] = 2 /\ line[4] = 1 /\ line[5] = 1
  /\ run.durable = seed
  /\ twin.durable # seed

\* C6: a failed commit of supercell_db ends the call at once and
\* configuration_db is never committed; a failed commit of
\* configuration_db ends the call with the error; the call never returns
\* normally after either.
C6_CommitFailureAborts ==
  /\ [](run.error = "StorageError" =>
          /\ run.pc = "aborted"
          /\ run.commits \in {<<>>, <<"supercell_db">>}
          /\ run.durable.configuration_db = seed.configuration_db
          /\ run.commits = <<>> => run.durable = seed)
  /\ [][run.error = "StorageError" => run' = run]_vars

\* The commit of supercell_db failed with new supercells and new
\* configurations in memory.
C6_Witness ==
  /\ run.error = "StorageError"
  /\ run.commits = <<>>
  /\ run.supercell_db # seed.supercell_db
  /\ run.configuration_db # seed.configuration_db

\* C7 (as claimed): a pair whose input the factory refuses is reported as
\* InvalidInput for that pair only; the call goes on to the later pairs.
C7_InvalidInputDoesNotAbort ==
  run.error = "InvalidInput" => run.pc # "aborted"

Rejects(r) ==
  r.options.filter # "none" /\ ~filter_accepts(r.options.filter, r.configuration)

\* C8: for a configuration the filter rejects, count_filtered goes up by
\* one, count stays, neither database changes (in memory or on disk) and no
\* canonical form is computed.
C8_FilterBeforeCanonicalization ==
  [][(run.pc = "filter" /\ Rejects(run)) =>
       /\ run'.count_filtered = run.count_filtered + 1
       /\ run'.count = run.count
       /\ InMemory(run') = InMemory(run)
       /\ run'.durable = run.durable
       /\ run'.canon_calls = run.canon_calls
       /\ run'.accepted = run.accepted]_vars

\* A configuration has just been rejected and nothing was stored for it.
C8_Witness ==
  /\ run.pc = "inner"
  /\ run.count_filtered = 1
  /\ run.count = 0
  /\ ~run.guaranteed
  /\ run.configuration \in Configurations
  /\ Rejects(run)
  /\ InMemory(run) = seed
  /\ run.canon_calls = 0

\* C9 (as claimed): a configuration of a guaranteed enumerator is stored as
\* it is, with no canonical form computed; any other is stored as its
\* canonical form under the permutations of its own supercell.
C9_DispatchAsClaimed ==
  [][run.pc = "insert" =>
       IF run.guaranteed
       THEN /\ run'.configuration_db = run.configuration_db \cup {run.configuration}
            /\ run'.canon_calls = run.canon_calls
       ELSE canonical_form(run.configuration) \in run'.configuration_db]_vars

\* C9 (amended): a configuration of a guaranteed enumerator is stored as it
\* is, with no canonical form computed and no check; any other is stored as
\* the canonical form of its primitive configuration, which is its own
\* canonical form when it is primitive; the canonical form of a
\* non-primitive configuration in its own supercell is stored as well only
\* when primitive_only is unset.
C9_Dispatch ==
  [][run.pc = "insert" =>
       LET config == run.configuration
           prim_canon == canonical_form(make_primitive(config))
       IN IF run.guaranteed
          THEN /\ run'.configuration_db = run.configuration_db \cup {config}
               /\ run'.supercell_db = run.supercell_db
               /\ run'.canon_calls = run.canon_calls
          ELSE /\ is_primitive(config) =>
                    /\ prim_canon = canonical_form(config)
                    /\ run'.configuration_db = run.configuration_db \cup {prim_canon}
               /\ (~is_primitive(config) /\ run.options.primitive_only) =>
                    run'.configuration_db = run.configuration_db \cup {prim_canon}
               /\ (~is_primitive(config) /\ ~run.options.primitive_only) =>
                    run'.configuration_db =
                      run.configuration_db \cup {prim_canon, canonical_form(config)}]_vars

\* A non-primitive configuration went down the canonicalizing path with
\* primitive_only set: its primitive canonical form is stored, its own
\* canonical form is not.
C9_Witness ==
  /\ ~run.guaranteed
  /\ run.options.primitive_only
  /\ run.pc = "inner"
  /\ run.configuration \in run.accepted
  /\ ~is_primitive(run.configuration)
  /\ canonical_form(make_primitive(run.configuration)) \in run.configuration_db
  /\ canonical_form(run.configuration) \notin run.configuration_db

\* Of the two calls, the one with primitive_only unset and the one with it
\* set.
WithBoth == IF run.options.primitive_only THEN twin ELSE run

PrimitiveOnly == IF run.options.primitive_only THEN run ELSE twin

\* The orbits met whose non-primitive canonical form differs from the
\* primitive one.
NonPrimitiveOrbits(r) ==
  {canonical_form(c) : c \in {a \in r.accepted : ~is_primitive(a)}}

IsTotalLine(line) == line[2][1] = "total"

Finalized(r) == SelectSeq(r.log, IsTotalLine) # <<>>

\* "# new configurations" of the call.
NewTotal(r) == SelectSeq(r.log, IsTotalLine)[1][2][2]

OneNonPrimitiveOrbit ==
  /\ Finalized(WithBoth)
  /\ Finalized(PrimitiveOnly)
  /\ ~run.guaranteed
  /\ Cardinality(NonPrimitiveOrbits(WithBoth)) = 1

\* C10 (as claimed): when exactly one orbit met has a distinct
\* non-primitive canonical form, the call with primitive_only unset reports
\* one new configuration more than the same call with it set.
C10_OneMoreAsClaimed ==
  OneNonPrimitiveOrbit => NewTotal(WithBoth) = NewTotal(PrimitiveOnly) + 1

\* C10 (amended): with primitive_only unset both forms of every accepted
\* configuration of a non-guaranteed enumerator are stored; when exactly one
\* orbit met has a distinct non-primitive canonical form, the call reports
\* one new configuration more than the same call with primitive_only set
\* if that form was not in the database when the call started, and the same
\* number if it was.
C10_OneMoreUnlessStored ==
  /\ ~run.guaranteed =>
       \A a \in WithBoth.accepted :
         /\ canonical_form(make_primitive(a)) \in WithBoth.configuration_db
         /\ canonical_form(a) \in WithBoth.configuration_db
  /\ OneNonPrimitiveOrbit =>
       NewTotal(WithBoth) =
         NewTotal(PrimitiveOnly)
           + (IF NonPrimitiveOrbits(WithBoth) \subseteq seed.configuration_db
              THEN 0 ELSE 1)

C10_Witness ==
  /\ OneNonPrimitiveOrbit
  /\ run.pc = "done"
  /\ twin.pc = "done"
  /\ Cardinality(WithBoth.accepted) = 2
  /\ NonPrimitiveOrbits(WithBoth) \cap seed.configuration_db = {}
  /\ NewTotal(WithBoth) = 2
  /\ NewTotal(PrimitiveOnly) = 1

\* The line logged for the pair that has just ended.
LastLine(r) == r.log[Len(r.log)][2]

\* The step that ends a pair: the enumerator is exhausted.
EndsBatch == run.pc = "inner" /\ run'.pc = "outer"

\* C11: when a pair ends, the line logged for it reports count and
\* count_filtered with count + count_filtered the number of configurations
\* the enumerator yielded and count_filtered the number of them the filter
\* refuses, and reports as new the number of insertions into
\* configuration_db during the pair that returned "inserted", which is the
\* size of configuration_db after the pair minus its size before.
C11_CounterAccounting ==
  [][EndsBatch =>
       LET line == LastLine(run')
       IN /\ line[1] = "batch"
          /\ line[3] = run.count
          /\ line[5] = run.count_filtered
          /\ line[3] + line[5] = run.yielded
          /\ line[5] = run.rejected
          /\ line[4] = run.new_inserts
          /\ line[4] = db_size(run'.configuration_db) - run.num_before]_vars

\* A pair has ended in which three configurations of one orbit were
\* accepted with no filter and one entry was new.
C11_Witness ==
  /\ run.pc = "outer"
  /\ run.it = 2
  /\ run.options.filter = "none"
  /\ ~run.guaranteed
  /\ LastLine(run) = <<"batch", 1, 3, 1, 0>>
  /\ run.yielded = 3
  /\ Cardinality(Orbits(run)) = 1
  /\ Cardinality(run.accepted) = 2

\* The lines that announce a pair and that close it, in the order logged.
IsPairLine(line) == line[2][1] \in {"enumerate", "batch"}

PairLines(r) ==
  LET lines == SelectSeq(r.log, IsPairLine)
  IN [j \in 1..Len(lines) |-> <<lines[j][2][1], lines[j][2][2]>>]

\* Pair 1 announced, pair 1 closed, pair 2 announced, ...
InOrderSupplied(lines) ==
  \A j \in 1..Len(lines) :
    lines[j] = <<IF j % 2 = 1 THEN "enumerate" ELSE "batch", (j + 1) \div 2>>

NoGreaterImage(config, range) ==
  \A A \in Members(range) : ~OccLess(config.occ, copy_apply(A, config).occ)

\* C13 (as claimed): is_canonical returns true if and only if no action of
\* the range it is given, applied to the object, yields a strictly greater
\* object; for the configuration overloads and for the
\* (scel, begin, end) and (g, sym_compare) overloads alike.
C13_IsCanonicalOverGivenRange ==
  call.op = "is_canonical" =>
    call.result.bool = NoGreaterImage(call.object, call.range)

\* The calls of ConfigCanonicalForm, with a range or without.
OnConfiguration == call.mode \in {"config", "config_default"}

Image(k) == copy_apply(call.range[k], call.object)

\* The earliest position of the range whose image no other image exceeds.
FirstMaximal ==
  CHOOSE k \in 1..Len(call.range) :
    /\ \A j \in 1..Len(call.range) : ~OccLess(Image(k).occ, Image(j).occ)
    /\ \A j \in 1..(k - 1) : Image(j) # Image(k)

\* C14: over a range that is not empty, canonical_form of a configuration
\* returns the image that is maximal under less among the images under the
\* actions of the range, and the action selected (what to_canonical
\* returns) is the earliest one of the range that gives this image.
C14_FirstMaximalWins ==
  (OnConfiguration /\ call.range # <<>>) =>
    /\ call.op = "canonical_form" => call.result = Object(Image(FirstMaximal))
    /\ call.op = "to_canonical" => call.result = Action(call.range[FirstMaximal])

\* Two actions of the range give the maximal image, neither is first in the
\* range, and the earlier of the two was selected.
C14_Witness ==
  /\ call.mode = "config"
  /\ call.op = "to_canonical"
  /\ call.result.tag = "action"
  /\ \E k, j \in 2..Len(call.range) :
       /\ k < j
       /\ call.result.action = call.range[k]
       /\ Image(j) = Image(k)
       /\ OccLess(Image(1).occ, Image(k).occ)

C16_FromCanonicalIsInverse ==
  call.op = "from_canonical" =>
    \E it \in to_canonical_returns(call) :
      call.result \in inverse_it(it, call.object.scel)

\* The same call made on the object a call of canonical_form returned.
OnResult == [call EXCEPT !.object = call.result.object]

\* C17 (as claimed): for every configuration and every range,
\* canonical_form of what canonical_form returned, over the same range, is
\* what canonical_form returned.
C17_IdempotentOverAnyRange ==
  (OnConfiguration /\ call.op = "canonical_form" /\ call.result.tag = "object") =>
    canonical_form_returns(OnResult) = {call.result}

\* C17 (amended): for every object and every range that lists a group (not
\* empty, closed under the product), canonical_form returns an object, and
\* canonical_form of that object over the same range returns it again.
C17_IdempotentOverGroup ==
  (call.op = "canonical_form" /\ IsGroup(call.range)) =>
    /\ call.result.tag = "object"
    /\ canonical_form_returns(OnResult) = {call.result}

\* canonical_form over a proper subgroup whose first action is not the
\* identity returned an object other than the one it was called on.
C17_Witness ==
  /\ call.mode = "config"
  /\ call.op = "canonical_form"
  /\ IsGroup(call.range)
  /\ Len(call.range) = 2
  /\ call.object.scel = 4
  /\ copy_apply(call.range[1], call.object) # call.object
  /\ call.result.tag = "object"
  /\ call.result.object # call.object

\* C18 (as claimed): for every configuration and every range,
\* is_canonical of what canonical_form returned, over the same range, is
\* true.
C18_MaximalOverAnyRange ==
  (OnConfiguration /\ call.op = "canonical_form" /\ call.result.tag = "object") =>
    is_canonical_returns(OnResult) = {Bool(TRUE)}

\* C18 (amended): for every object and every range that lists a group,
\* is_canonical of what canonical_form returned, over the same range, is
\* true.
C18_MaximalOverGroup ==
  (call.op = "canonical_form" /\ IsGroup(call.range)) =>
    /\ call.result.tag = "object"
    /\ is_canonical_returns(OnResult) = {Bool(TRUE)}

\* canonical_form over the whole group of the four-site cell was called on
\* an object that is not canonical and returned one that is.
C18_Witness ==
  /\ call.mode = "config"
  /\ call.op = "canonical_form"
  /\ IsGroup(call.range)
  /\ Len(call.range) = 4
  /\ is_canonical_returns(call) = {Bool(FALSE)}
  /\ call.result.tag = "object"
  /\ is_canonical_returns(OnResult) = {Bool(TRUE)}

\* The distinct images of the object under the actions of the range.
Orbit(config, range) == {copy_apply(A, config) : A \in Members(range)}

\* C19: for a configuration o and a range that lists a group, each action
\* once, the number of actions of the range is the number of distinct
\* images of o under the range times the number of actions
\* invariant_subgroup returns.
C19_OrbitStabilizer ==
  (OnConfiguration /\ call.op = "invariant_subgroup" /\ IsGroup(call.range)) =>
    Len(call.range) =
      Cardinality(Orbit(call.object, call.range)) * Len(call.result.subgroup)

\* Over the four translations of the four-site cell, an object with two
\* images and two actions that leave it equal.
C19_Witness ==
  /\ call.mode = "config"
  /\ call.op = "invariant_subgroup"
  /\ IsGroup(call.range)
  /\ Len(call.range) = 4
  /\ Cardinality(Orbit(call.object, call.range)) = 2
  /\ Len(call.result.subgroup) = 2
  /\ is_canonical_returns(call) = {Bool(TRUE)}

\* The same call made on the other object of a call of is_equivalent.
OnOther == [call EXCEPT !.object = call.other]

\* C20 (as claimed): in the (g, sym_compare) interface, in the
\* (scel, begin, end) interface and for a configuration without a range,
\* is_equivalent returns true if and only if canonical_form, called through
\* the same interface with the same arguments on each of the two objects,
\* returns equal objects.
C20_EquivalentIffSameCanonicalForm ==
  call.op = "is_equivalent" =>
    \A a \in canonical_form_returns(call), b \in canonical_form_returns(OnOther) :
      call.result.bool = (a = b)

\* The position of an action in a range that holds it once.
PositionIn(range, A) == CHOOSE k \in 1..Len(range) : range[k] = A

\* C21: invariant_subgroup of a configuration over a range returns the
\* actions of the range whose image is equal to the configuration, all of
\* them and no other, each once, in the order of the range.
C21_InvariantSubgroupExact ==
  (OnConfiguration /\ call.op = "invariant_subgroup") =>
    LET sub_grp == call.result.subgroup
    IN /\ Members(sub_grp) =
            {A \in Members(call.range) : copy_apply(A, call.object) = call.object}
       /\ Len(sub_grp) = Cardinality(Members(sub_grp))
       /\ \A i, j \in 1..Len(sub_grp) :
            i < j => PositionIn(call.range, sub_grp[i]) < PositionIn(call.range, sub_grp[j])

\* Two actions of a range of three were returned, the identity after the
\* other; the third action gives an equivalent object that is not equal.
C21_Witness ==
  /\ call.mode = "config"
  /\ call.op = "invariant_subgroup"
  /\ Len(call.range) = 3
  /\ Len(call.result.subgroup) = 2
  /\ call.result.subgroup[2] = [i \in 1..call.object.scel |-> i]
  /\ \E A \in Members(call.range) :
       /\ copy_apply(A, call.object) # call.object
       /\ ConfigCanonicalForm_is_equivalent(copy_apply(A, call.object), call.object)

\* C22 (as claimed): over an empty range canonical_form of a configuration
\* returns the configuration unchanged and is_canonical returns true.
C22_EmptyRangeReturnsObject ==
  (call.mode = "config" /\ call.range = <<>>) =>
    /\ call.op = "canonical_form" => call.result = Object(call.object)
    /\ call.op = "is_canonical" => call.result = Bool(TRUE)

\* C23 (as claimed): canonical_form or to_canonical of a configuration over
\* an empty range ends in the error InvariantViolation; no object and no
\* action is returned for the caller to store.
C23_EmptyRangeIsInvariantViolation ==
  (call.mode = "config" /\ call.range = <<>>
     /\ call.op \in {"canonical_form", "to_canonical"}) =>
    call.result.tag = "InvariantViolation"

\* A member of the interface is being called.
IsCall == call.op = "ready" /\ call'.op # "ready"

\* C24 (as claimed): no call of a member of the canonical-form interface,
\* on a configuration or on a supercell, changes the content of the
\* supercell database or of the configuration database, and none changes
\* the object it is called on.
C24_CanonicalizationIsReadOnly ==
  [][IsCall =>
       /\ call'.supercell_db = call.supercell_db
       /\ call'.configuration_db = call.configuration_db
       /\ call'.object = call.object]_vars

\* C25 (as claimed): in the (scel, begin, end) interface is_canonical,
\* canonical_form and to_canonical are decided by the actions of
\* [begin, end) alone: is_canonical tells whether an action of the range
\* gives a greater object, canonical_form is the canonical form over the
\* range that is_equivalent compares, and to_canonical is an action of the
\* range.
C25_LocalModeUsesGivenRange ==
  call.mode = "local" =>
    /\ call.op = "is_canonical" =>
         call.result = Bool(NoGreaterImage(call.object, call.range))
    /\ call.op = "canonical_form" =>
         call.result = Object(ScelCanonicalGenerator(call.object, call.range))
    /\ (call.op = "to_canonical" /\ call.range # <<>>) =>
         call.result.action \in Members(call.range)

\* The step taken when the enumerator has no further configuration.
Exhausted == run.pc = "inner" /\ run'.yielded = run.yielded /\ run' # run

\* C26: every call on a finite sequence of pairs whose enumerators each
\* yield finitely many configurations returns normally (Done) unless a
\* collaborator fails (the factory or a commit throws); when an enumerator
\* is exhausted no error is raised, the counters of its pair are logged and
\* the loop is at the next pair, whose enumerator is built next if there is
\* one.
C26_Termination ==
  /\ <>(run.pc = "done" \/ run.error # "none")
  /\ [](run.error = "none" => run.pc # "aborted")
  /\ [][Exhausted =>
          /\ run'.error = "none"
          /\ run'.pc = "outer"
          /\ run'.it = run.it + 1
          /\ LastLine(run') = <<"batch", run.it, run.count,
                                 db_size(run.configuration_db) - run.num_before,
                                 run.count_filtered>>]_vars
  /\ [][(run.pc = "outer" /\ run.it <= run.n_pairs) =>
          LastLine(run') = <<"enumerate", run.it>>]_vars

\* The call returned normally after two pairs, the first of which had an
\* enumerator that yielded nothing.
C26_Witness ==
  /\ run.pc = "done"
  /\ run.error = "none"
  /\ run.n_pairs = 2
  /\ \E i, j \in 1..Len(Reported(run)) :
       /\ Reported(run)[i] = <<"batch", 1, 0, 0, 0>>
       /\ Reported(run)[j][1] = "batch" /\ Reported(run)[j][2] = 2 /\ Reported(run)[j][3] = 2

\* The same call made on the image of the object under an action.
OnImage(A) == [call EXCEPT !.object = copy_apply(A, call.object)]

\* A call of enumerate_configurations on empty databases, at the point where
\* make_canonical_and_insert is reached.
EmptyRun ==
  InitialRun([dry_run |-> FALSE, primitive_only |-> FALSE, filter |-> "none"],
             FALSE, 1, [configuration_db |-> {}, supercell_db |-> {}])

\* The databases after make_canonical_and_insert of the configurations of a
\* sequence, in order.
RECURSIVE StoredAfter(_, _, _)
StoredAfter(r, configs, primitive_only) ==
  IF configs = <<>> THEN InMemory(r)
  ELSE StoredAfter(make_canonical_and_insert(r, Head(configs), primitive_only),
                   Tail(configs), primitive_only)

\* C27: over a range that lists a group, canonical_form of the image of a
\* configuration under any action of the range is canonical_form of the
\* configuration; and what make_canonical_and_insert stores for a member of
\* an orbit is the same whichever member is yielded, whether one or two
\* members are yielded, and in whichever order.
C27_OrbitInvariance ==
  (OnConfiguration /\ call.op = "canonical_form" /\ IsGroup(call.range)) =>
    \A A \in Members(call.range) :
      /\ canonical_form_returns(OnImage(A)) = {call.result}
      /\ (call.mode = "config_default" /\ call.object.scel \in Supercells) =>
           \A primitive_only \in BOOLEAN :
             LET o == call.object
                 image == copy_apply(A, o)
                 stored == StoredAfter(EmptyRun, <<o>>, primitive_only)
             IN /\ StoredAfter(EmptyRun, <<image>>, primitive_only) = stored
                /\ StoredAfter(EmptyRun, <<o, image>>, primitive_only) = stored
                /\ StoredAfter(EmptyRun, <<image, o>>, primitive_only) = stored
                /\ call.result.object \in stored.configuration_db
                     \/ (primitive_only /\ ~is_primitive(o))

\* canonical_form over the permutations of the two-site supercell returned
\* an object other than the one it was called on, which is stored under
\* the entry of that object.
C27_Witness ==
  /\ call.mode = "config_default"
  /\ call.op = "canonical_form"
  /\ call.object.scel = 2
  /\ call.result.tag = "object"
  /\ call.result.object # call.object
  /\ StoredAfter(EmptyRun, <<call.object>>, TRUE).configuration_db = {call.result.object}

\* The action that leaves every site where it is.
IsIdentity(A) == \A i \in DOMAIN A : A[i] = i

HasIdentity(range) == \E A \in Members(range) : IsIdentity(A)

\* No image of the configuration under the range exceeds it.
MaximalInOrbit(config, range) ==
  \A image \in Orbit(config, range) : ~OccLess(config.occ, image.occ)

\* C28: for a configuration o and a range that contains the identity, group
\* or not, is_canonical is true if and only if canonical_form over the same
\* range returns o, if and only if no image of o under the range exceeds o.
C28_IsCanonicalAgrees ==
  (OnConfiguration /\ HasIdentity(call.range)) =>
    /\ call.op = "is_canonical" =>
         /\ call.result.bool = (canonical_form_returns(call) = {Object(call.object)})
         /\ call.result.bool = MaximalInOrbit(call.object, call.range)
    /\ call.op = "canonical_form" =>
         /\ (call.result = Object(call.object)) = (is_canonical_returns(call) = {Bool(TRUE)})
         /\ (call.result = Object(call.object)) = MaximalInOrbit(call.object, call.range)

\* is_canonical returned true over a range that is not a group, holds the
\* identity after another action, and moves the configuration to a
\* different image.
C28_Witness ==
  /\ OnConfiguration
  /\ call.op = "is_canonical"
  /\ call.result = Bool(TRUE)
  /\ HasIdentity(call.range)
  /\ ~IsGroup(call.range)
  /\ ~IsIdentity(call.range[1])
  /\ Image(1) # call.object

====
